---- MODULE Spec2Model ----
(***************************************************************************)
(* The account entity of propertyHub: one stored account document, the     *)
(* in-memory copies (Mongoose documents) that request handlers hold of it, *)
(* and the statics, instance methods and virtuals of                       *)
(* server/utils/models/baseAccountModel attached to it.                    *)
(*                                                                         *)
(* Dates are milliseconds since the epoch, as Date.now() returns them.     *)
(* A save of a loaded document writes the paths whose value changed since  *)
(* the document was loaded or last saved, and no other path.               *)
(***************************************************************************)
EXTENDS Integers, Sequences, FiniteSets, TLC

\* ------------------------------------------------------------------ bounds
TickMinutes == 5        \* the clock advances in steps of this many minutes
MaxTicks == 4           \* the clock stops after this many steps
MaxAttempts == 6        \* failedLoginAttempts is not driven beyond this
MaxHistoryCalls == 12   \* addLoginHistory calls made on one copy
NumTokens == 2          \* distinct values crypto.randomBytes can return
SmallCap == 1           \* cap of the bookkeeping counters in the full Spec
LifeTicks == 2          \* clock steps taken in the full Spec
MaxNameLen == 3         \* characters of a name a caller supplies
NumSalts == 2           \* distinct values bcrypt.genSalt can return
MaxDepth == 2           \* nesting of arrays and subdocuments in a field type

\* ------------------------------------------------------- program constants
MAX_ATTEMPTS == 5
LOCK_TIME == 15 * 60 * 1000
MAX_HISTORY_LENGTH == 10

\* JavaScript's null and undefined; every Date and token is >= 0
NULL == -1
UNDEFINED == -2

AccountStatus == {"active", "pending", "suspended", "deactivated"}

Ids == {1}                       \* _id of the stored account
QueryIds == Ids \cup {2}         \* 2 is an _id no stored account has
FindIds == {1, 2}                \* _ids of the accounts a find ranges over
FindQueryIds == FindIds \cup {3} \* 3 is an _id no stored account has
Inst == {1, 2}                   \* in-memory copies request handlers hold
Tokens == 1..NumTokens
TickStep == TickMinutes * 60 * 1000
WRONG_TOKEN == 0                 \* a string no randomBytes call returned

\* ------------------------------------------------------------------ strings
\* A string is a sequence of characters; e_acute / E_acute stand for the
\* letters U+00E9 / U+00C9, which are letters but not \w of a RegExp
Letters == {"a", "A", "b", "B", "c", "C", "e_acute", "E_acute"}
Digits == {"0", "1", "2"}
Chars == Letters \cup Digits \cup {" ", "+", "@", ".", "_", "$"}

NoString == << >>                \* undefined, or the empty string

\* Upper-case letters and their lower-case forms
LowerOf == [c \in {"A", "B", "C", "E_acute"} |->
               CASE c = "A" -> "a" [] c = "B" -> "b" [] c = "C" -> "c"
                 [] c = "E_acute" -> "e_acute"]

UpperOf == [c \in {"a", "b", "c", "e_acute"} |->
               CASE c = "a" -> "A" [] c = "b" -> "B" [] c = "c" -> "C"
                 [] c = "e_acute" -> "E_acute"]

\* String.prototype.toLowerCase / toUpperCase of one character
toLowerCase(c) == IF c \in DOMAIN LowerOf THEN LowerOf[c] ELSE c

toUpperCase(c) == IF c \in DOMAIN UpperOf THEN UpperOf[c] ELSE c

Lower(str) == [k \in 1..Len(str) |-> toLowerCase(str[k])]

\* \w of a RegExp without the u flag: [A-Za-z0-9_]
WordChars == {"a", "A", "b", "B", "c", "C", "0", "1", "2", "_"}

IsWordChar(c) == c \in WordChars

\* \b\w matches at k: a word character with no word character before it
AtWordStart(str, k) == IsWordChar(str[k]) /\ (k = 1 \/ ~IsWordChar(str[k - 1]))

\* \B\w matches at k: a word character with a word character before it
InsideWord(str, k) == IsWordChar(str[k]) /\ k > 1 /\ IsWordChar(str[k - 1])

RECURSIVE TrimStart(_)
TrimStart(str) ==
    IF str # << >> /\ Head(str) = " " THEN TrimStart(Tail(str)) ELSE str

RECURSIVE TrimEnd(_)
TrimEnd(str) ==
    IF str # << >> /\ str[Len(str)] = " "
    THEN TrimEnd(SubSeq(str, 1, Len(str) - 1)) ELSE str

\* String.prototype.trim
Trim(str) == TrimEnd(TrimStart(str))

VARIABLES
    store,      \* store[id]: the persisted account document
    inst,       \* inst[i]: an in-memory document, or NoDoc
    now,        \* Date.now()
    calls,      \* calls[i]: addLoginHistory calls made on copy i
    base,       \* base[i]: calls[i] when copy i's loginHistory was empty
    run,        \* run[i]: incrementFailedLogins calls in a row on copy i
                \*         since it had 0 attempts and no lock; NULL if none
    plain,      \* plain[id]: the plaintext the password of account id was
                \*            last set from
    ret         \* outcome of the last operation

vars == <<store, inst, now, calls, base, run, plain, ret>>

\* ----------------------------------------------------------------- password
\* Plaintexts that pass the password validators (6 characters or more, a
\* lower-case letter, an upper-case letter and a digit)
Passwords ==
    {<<"a", "B", "1", "a", "B", "1">>, <<"a", "B", "1", "a", "B", "2">>,
     <<"A", "b", "1", "a", "B", "1">>}

SaltOf == <<"0", "1", "2", "a", "b">>
Salts == {SaltOf[k] : k \in 1..NumSalts}

HashPassword_Plain(password, salt) == password

\* bcrypt.hash(password, salt): a string that carries the salt and a digest
\* only this plaintext has
HashPassword(password, salt) == <<"$", salt>> \o password

bcryptCompare_AnyHash(candidate, hash) == Len(hash) >= 2 /\ hash[1] = "$"

\* bcrypt.compare(candidate, hash)
bcryptCompare(candidate, hash) ==
    /\ Len(hash) >= 2 /\ hash[1] = "$"
    /\ SubSeq(hash, 3, Len(hash)) = candidate

\* ----------------------------------------------------------------- document

\* Field defaults of the schema
DefaultSecurity ==
    [failedLoginAttempts |-> 0, lockUntil |-> NULL, lastLogin |-> NULL,
     isEmailVerified |-> FALSE, emailVerificationToken |-> UNDEFINED]

\* The identity fields of the account the specifications start from, as a
\* save left them
FirstPassword == <<"a", "B", "1", "a", "B", "1">>

StoredIdentity ==
    [email |-> <<"a", "@", "b", ".", "c">>,
     password |-> HashPassword(FirstPassword, SaltOf[1]),
     phoneNumber |-> <<"1", "0">>,
     profile |-> [firstName |-> <<"A", "b">>, lastName |-> <<"B", "a">>]]

Account(identity, status) ==
    [email |-> identity.email, password |-> identity.password,
     phoneNumber |-> identity.phoneNumber, profile |-> identity.profile,
     accountStatus |-> status, deletedAt |-> NULL,
     security |-> DefaultSecurity, loginHistory |-> << >>]

NewAccount(status) == Account(StoredIdentity, status)

\* A second account; the email index is unique
OtherEmail == <<"b", "@", "b", ".", "c">>

OtherAccount(status) ==
    Account([StoredIdentity EXCEPT !.email = OtherEmail], status)

\* What a query that matches nothing resolves to
NullDoc == [isNull |-> TRUE]

NoDoc == [_id |-> NULL, doc |-> NewAccount("pending")]

Loaded(i) == inst[i]._id # NULL

\* A top-level property of a document; undefined when the schema has no
\* such path and nothing assigned it
GetPath(doc, path) == IF path \in DOMAIN doc THEN doc[path] ELSE UNDEFINED

\* JavaScript truthiness of a Date-or-null-or-undefined value
Truthy(v) == v # NULL /\ v # UNDEFINED

\* Projection of a query result: select:false paths are left out
Select(d) ==
    [d EXCEPT !.security.emailVerificationToken = UNDEFINED,
              !.password = NoString]

\* Model.findOne(query) / findById(id): the 'find' pre hook is registered
\* for find only, so a single-document read sees every status
FindOne(q) == IF q \in DOMAIN store THEN Select(store[q]) ELSE NullDoc

\* An atomic update instead: $inc of the counter by what the copy added
SaveDelta_Inc(stored, before, after) ==
    [stored EXCEPT !.security.failedLoginAttempts =
        @ + (after.security.failedLoginAttempts
                - before.security.failedLoginAttempts)]

\* doc.save() of a loaded document: $set of the changed paths
SaveDelta(stored, before, after) ==
    [email |->
        IF after.email # before.email THEN after.email ELSE stored.email,
     password |->
        IF after.password # before.password
        THEN after.password ELSE stored.password,
     phoneNumber |->
        IF after.phoneNumber # before.phoneNumber
        THEN after.phoneNumber ELSE stored.phoneNumber,
     profile |->
        [f \in DOMAIN stored.profile |->
            IF after.profile[f] # before.profile[f]
            THEN after.profile[f] ELSE stored.profile[f]],
     accountStatus |->
        IF after.accountStatus # before.accountStatus
        THEN after.accountStatus ELSE stored.accountStatus,
     deletedAt |->
        IF after.deletedAt # before.deletedAt
        THEN after.deletedAt ELSE stored.deletedAt,
     security |->
        [f \in DOMAIN stored.security |->
            IF after.security[f] # before.security[f]
            THEN after.security[f] ELSE stored.security[f]],
     loginHistory |->
        IF after.loginHistory # before.loginHistory
        THEN after.loginHistory ELSE stored.loginHistory]

\* -------------------------------------------------------------------- hooks

toTitleCase_FirstOnly(str) ==
    [k \in 1..Len(str) |->
        IF AtWordStart(str, k) THEN toUpperCase(str[k]) ELSE str[k]]

\* str.replace(/\b\w/g, toUpperCase).replace(/\B\w/g, toLowerCase)
toTitleCase(str) ==
    LET first == [k \in 1..Len(str) |->
                    IF AtWordStart(str, k) THEN toUpperCase(str[k]) ELSE str[k]]
    IN  [k \in 1..Len(first) |->
            IF InsideWord(first, k) THEN toLowerCase(first[k]) ELSE first[k]]

StripPlus_First(str) == IF str # << >> THEN Tail(str) ELSE str

\* str.replace(/^\+/, '')
StripPlus(str) == IF str # << >> /\ Head(str) = "+" THEN Tail(str) ELSE str

PasswordModified_Always(before, after) == TRUE

\* this.isModified('password')
PasswordModified(before, after) == after.password # before.password

\* preSave: hash the password if modified, then normalize email, names, phone
preSave(before, after, salt) ==
    LET hashed == IF PasswordModified(before, after)
                  THEN [after EXCEPT !.password = HashPassword(@, salt)]
                  ELSE after
    IN  [hashed EXCEPT
            !.email = IF @ # NoString THEN Lower(Trim(@)) ELSE @,
            !.profile.firstName =
                IF @ # NoString THEN toTitleCase(Trim(@)) ELSE @,
            !.profile.lastName =
                IF @ # NoString THEN toTitleCase(Trim(@)) ELSE @,
            !.phoneNumber = IF @ # NoString THEN StripPlus(@) ELSE @]

\* bcrypt.genSalt(10) is called only when the password is modified; its 128
\* random bits are a salt the copy's current hash was not made with
GenSalt(before, after) ==
    IF PasswordModified(before, after)
    THEN {salt \in Salts : Len(before.password) < 2 \/ before.password[2] # salt}
    ELSE {SaltOf[1]}

\* bcrypt.genSalt or bcrypt.hash may throw, when the password is modified
Outcomes == {"hashed", "error"}

HashOutcomes(before, after) ==
    IF PasswordModified(before, after) THEN Outcomes ELSE {"hashed"}

preSaveError_Normalizes(before, after) ==
    [preSave(before, after, SaltOf[1]) EXCEPT !.password = after.password]

\* preSave when the hashing throws: return next(error) before any later step
preSaveError(before, after) == after

\* hooks.post of the account configuration, as the literal is written: two
\* entries under the key save
PostHookEntries ==
    <<[method |-> "save", handler |-> "removePassword"],
      [method |-> "save", handler |-> "logStatusChange"]>>

\* The entries of an object literal: of two entries with one key, the one
\* written last
ObjectEntries(entries) ==
    {entries[k] : k \in {k \in 1..Len(entries) :
        \A j \in (k + 1)..Len(entries) :
            entries[j].method # entries[k].method}}

\* applyHooks: schema.post(method, handler) for each entry of hooks.post
PostHandlers(method) ==
    {e.handler : e \in {e \in ObjectEntries(PostHookEntries) :
                            e.method = method}}

\* The post-save handlers, run on the document save() resolves with
postSave(doc) ==
    IF "removePassword" \in PostHandlers("save")
    THEN [doc EXCEPT !.password = NoString] ELSE doc

\* doc.isModified('accountStatus') in a post-save handler: save() has reset
\* the modified paths by then
IsModifiedAfterSave == FALSE

\* The log line of the post-save handler is written
StatusChangeLogged ==
    "logStatusChange" \in PostHandlers("save") /\ IsModifiedAfterSave

\* ---------------------------------------------------------------- validators

\* EMAIL: /^\S+@\S+\.\S+$/
EmailValid(str) ==
    /\ \A k \in 1..Len(str) : str[k] # " "
    /\ \E at \in 2..Len(str), dot \in 4..Len(str) :
          str[at] = "@" /\ str[dot] = "." /\ at + 1 < dot /\ dot < Len(str)

\* PHONE_NUMBER: /^\+?[1-9]\d{1,14}$/
PhoneValid(str) ==
    LET d == StripPlus(str) IN
    /\ Len(d) \in 2..15
    /\ d[1] \in Digits \ {"0"}
    /\ \A k \in 1..Len(d) : d[k] \in Digits

\* NAME: required, minlength 2, maxlength 50
NameValid(str) == Len(str) \in 2..50

\* Validation of the modified paths, which runs before the pre-save hooks
Valid(before, after) ==
    /\ after.email # before.email => EmailValid(after.email)
    /\ after.phoneNumber # before.phoneNumber =>
          (after.phoneNumber = NoString \/ PhoneValid(after.phoneNumber))
    /\ after.profile.firstName # before.profile.firstName =>
          NameValid(after.profile.firstName)
    /\ after.profile.lastName # before.profile.lastName =>
          NameValid(after.profile.lastName)
    /\ after.password # before.password => after.password \in Passwords

\* The stored status of the account a call is about, before the call
StatusOf(d) == [accountStatus |-> d.accountStatus, deletedAt |-> d.deletedAt]

NoStatus == [accountStatus |-> "none", deletedAt |-> NULL]

StatusPre(id) ==
    IF id \in DOMAIN store THEN StatusOf(store[id]) ELSE NoStatus

\* What the last call was, when it was made, how it ended, what it returned
Ret(op, who, kind, pre, val) ==
    [op |-> op, who |-> who, kind |-> kind, pre |-> pre, val |-> val,
     at |-> now]

Init ==
    /\ store \in [Ids -> {NewAccount(s) : s \in AccountStatus}]
    /\ inst = [i \in Inst |-> NoDoc]
    /\ now = 0
    /\ calls = [i \in Inst |-> 0]
    /\ base = [i \in Inst |-> NULL]
    /\ run = [i \in Inst |-> NULL]
    /\ plain = [id \in Ids |-> FirstPassword]
    /\ ret = Ret("init", 0, "ok", NoStatus, NULL)

\* Two stored accounts, each in any status
InitFind ==
    /\ store \in {(1 :> NewAccount(s)) @@ (2 :> OtherAccount(t)) :
                     s \in AccountStatus, t \in AccountStatus}
    /\ inst = [i \in Inst |-> NoDoc]
    /\ now = 0
    /\ calls = [i \in Inst |-> 0]
    /\ base = [i \in Inst |-> NULL]
    /\ run = [i \in Inst |-> NULL]
    /\ plain = [id \in FindIds |-> FirstPassword]
    /\ ret = Ret("init", 0, "ok", NoStatus, NULL)

\* A request handler reads the account: Model.findOne / findById
Load(i, id) ==
    /\ id \in DOMAIN store
    /\ inst' = [inst EXCEPT ![i] = [_id |-> id, doc |-> FindOne(id)]]
    /\ base' = [base EXCEPT ![i] =
                    IF store[id].loginHistory = << >> THEN calls[i] ELSE NULL]
    /\ run' = [run EXCEPT ![i] =
                    IF /\ store[id].security.failedLoginAttempts = 0
                       /\ store[id].security.lockUntil = NULL
                    THEN 0 ELSE NULL]
    /\ ret' = Ret("load", i, "ok", StatusPre(id), NULL)
    /\ UNCHANGED <<store, now, calls, plain>>

Tick ==
    /\ now' = now + TickStep
    /\ UNCHANGED <<store, inst, calls, base, run, ret, plain>>

\* ------------------------------------------------------------ create, save

\* Strings of up to n characters
Strings(chars, n) == UNION {[1..k -> chars] : k \in 0..n}

\* Names and phone numbers a caller supplies
NameChars == {"a", "A", " ", "e_acute"}
Names == Strings(NameChars, MaxNameLen)

PhoneChars == {"+", "1", "0"}
Phones == Strings(PhoneChars, MaxNameLen)

Emails ==
    {<<"a", "@", "b", ".", "c">>, <<" ", "A", "@", "b", ".", "C", " ">>,
     <<"E_acute", "@", "B", ".", "c">>, <<"a", "@", "b">>, << >>}

\* What a caller passes to new AccountModel(...), or assigns before save()
ValidInput ==
    [email |-> <<"a", "@", "b", ".", "c">>, password |-> FirstPassword,
     phoneNumber |-> NoString,
     firstName |-> <<"A", "b">>, lastName |-> <<"B", "a">>]

NoInput ==
    [email |-> NoString, password |-> NoString, phoneNumber |-> NoString,
     firstName |-> NoString, lastName |-> NoString]

\* Inputs that differ from a valid one in one identity field
IdentityInputs ==
    {[ValidInput EXCEPT !.firstName = n] : n \in Names} \cup
    {[ValidInput EXCEPT !.lastName = n] : n \in Names} \cup
    {[ValidInput EXCEPT !.phoneNumber = n] : n \in Phones} \cup
    {[ValidInput EXCEPT !.email = e] : e \in Emails}

\* Inputs that differ from a valid one in the password
PasswordInputs ==
    {[ValidInput EXCEPT !.password = w] : w \in Passwords \cup {NoString}}

\* Fields a handler assigns to a loaded copy before save(): none, or some
IdentityUpdates ==
    {NoInput,
     [NoInput EXCEPT !.email = <<" ", "A", "@", "b", ".", "C", " ">>,
                     !.firstName = <<" ", "a", "A">>],
     [NoInput EXCEPT !.lastName = <<"a", " ", "a">>,
                     !.phoneNumber = <<"+", "1", "0">>],
     [NoInput EXCEPT !.phoneNumber = <<"+", "+", "1">>]}

PasswordUpdates ==
    {NoInput} \cup {[NoInput EXCEPT !.password = w] : w \in Passwords}

\* A new account, and a password change, that come with names and a phone
\* number to normalize
ProfileInputs ==
    {ValidInput,
     [ValidInput EXCEPT !.phoneNumber = <<"+", "1", "0">>],
     [ValidInput EXCEPT !.firstName = <<" ", "a", "A">>],
     [ValidInput EXCEPT !.lastName = <<"a", " ", "a">>,
                        !.phoneNumber = <<"1", "0">>]}

ProfileUpdates ==
    {NoInput,
     [NoInput EXCEPT !.password = <<"a", "B", "1", "a", "B", "2">>],
     [NoInput EXCEPT !.password = FirstPassword,
                     !.firstName = <<"a", "A">>,
                     !.phoneNumber = <<"+", "1", "0">>]}

\* A document before any field is assigned
BlankDoc ==
    Account([email |-> NoString, password |-> NoString,
             phoneNumber |-> NoString,
             profile |-> [firstName |-> NoString, lastName |-> NoString]],
            "pending")

\* Assignment of the given fields, through the setters of the schema:
\* trim on email, names and phone number, lowercase on email
Assign(d, in) ==
    [d EXCEPT
        !.email = IF in.email # NoString THEN Lower(Trim(in.email)) ELSE @,
        !.password = IF in.password # NoString THEN in.password ELSE @,
        !.phoneNumber =
            IF in.phoneNumber # NoString THEN Trim(in.phoneNumber) ELSE @,
        !.profile.firstName =
            IF in.firstName # NoString THEN Trim(in.firstName) ELSE @,
        !.profile.lastName =
            IF in.lastName # NoString THEN Trim(in.lastName) ELSE @]

\* The required validators
Required(d) ==
    /\ d.email # NoString /\ d.password # NoString
    /\ d.profile.firstName # NoString /\ d.profile.lastName # NoString

\* -------------------------------------------------------------------- find

\* Query conditions: a record with a field for each constrained path
NoCondition == << >>

EmailConditions ==
    {NoCondition} \cup
    {("email" :> e) : e \in {StoredIdentity.email, OtherEmail,
                              <<"c", "@", "b", ".", "c">>}}

\* An accountStatus condition: a status, or the empty string
StatusConditions ==
    {NoCondition} \cup {("accountStatus" :> v) : v \in AccountStatus \cup {""}}

FindQueries == {e @@ t : e \in EmailConditions, t \in StatusConditions}

\* !this.getQuery().accountStatus is false
HasAccountStatus(q) == "accountStatus" \in DOMAIN q /\ q["accountStatus"] # ""

preFind_Always(q) ==
    [f \in DOMAIN q \cup {"accountStatus"} |->
        IF f = "accountStatus" THEN "active" ELSE q[f]]

\* preFind: this.where({ accountStatus: 'active' }) when the query has none
preFind(q) ==
    IF ~HasAccountStatus(q)
    THEN [f \in DOMAIN q \cup {"accountStatus"} |->
            IF f = "accountStatus" THEN "active" ELSE q[f]]
    ELSE q

\* A stored document satisfies every condition of the query
Matches(doc, q) == \A f \in DOMAIN q : doc[f] = q[f]

\* What find resolves with: the matching documents
Found(q) ==
    {[_id |-> id, accountStatus |-> store[id].accountStatus] :
        id \in {x \in DOMAIN store : Matches(store[x], q)}}

\* Model.find(query): the 'find' pre hook, then the query
find(query) ==
    /\ ret' = Ret("find", 0, "ok", NoStatus,
                  [query |-> query, docs |-> Found(preFind(query))])
    /\ UNCHANGED <<store, inst, now, calls, base, run, plain>>

\* ------------------------------------------------------------------ statics

SoftDeleteSet_KeepsDeletedAt(doc) ==
    [doc EXCEPT !.accountStatus = "deactivated"]

SoftDeleteSet(doc) ==
    [doc EXCEPT !.accountStatus = "deactivated", !.deletedAt = now]

softDelete_ResolvesNull(query) ==
    LET doc == FindOne(query) IN
    IF doc = NullDoc
    THEN /\ ret' = Ret("softDelete", 0, "ok", StatusPre(query), NULL)
         /\ UNCHANGED <<store, inst, now, calls, base, run, plain>>
    ELSE \E upd \in {preSave(doc, SoftDeleteSet(doc), SaltOf[1])} :
         /\ store' = [store EXCEPT ![query] = SaveDelta(@, doc, upd)]
         /\ ret' = Ret("softDelete", 0, "ok", StatusPre(query), StatusOf(upd))
         /\ UNCHANGED <<inst, now, calls, base, run, plain>>

softDelete(query) ==
    LET doc == FindOne(query) IN
    IF doc = NullDoc
    THEN /\ ret' = Ret("softDelete", 0, "NotFound", StatusPre(query), NULL)
         /\ UNCHANGED <<store, inst, now, calls, base, run, plain>>
    ELSE \E upd \in {preSave(doc, SoftDeleteSet(doc), SaltOf[1])} :
         /\ store' = [store EXCEPT ![query] = SaveDelta(@, doc, upd)]
         /\ ret' = Ret("softDelete", 0, "ok", StatusPre(query), StatusOf(upd))
         /\ UNCHANGED <<inst, now, calls, base, run, plain>>

\* softDelete up to its first await: const doc = await this.findOne(query)
softDeleteRead(i, query) ==
    IF FindOne(query) = NullDoc
    THEN /\ ret' = Ret("softDelete", i, "NotFound", StatusPre(query), NULL)
         /\ UNCHANGED <<store, inst, now, calls, base, run, plain>>
    ELSE /\ inst' = [inst EXCEPT ![i] = [_id |-> query, doc |-> FindOne(query)]]
         /\ ret' = Ret("findOne", i, "ok", StatusPre(query), NULL)
         /\ UNCHANGED <<store, now, calls, base, run, plain>>

\* softDelete after that await: the document it read is changed and saved
softDeleteWrite(i) ==
    LET doc == inst[i].doc
        id == inst[i]._id IN
    /\ Loaded(i)
    /\ inst' = [inst EXCEPT ![i] = NoDoc]
    /\ \E upd \in {preSave(doc, SoftDeleteSet(doc), SaltOf[1])} :
         /\ store' = [store EXCEPT ![id] = SaveDelta(@, doc, upd)]
         /\ ret' = Ret("softDelete", i, "ok", StatusPre(id), StatusOf(upd))
    /\ UNCHANGED <<now, calls, base, run, plain>>

LockUpdate(stored) == [stored EXCEPT !.accountStatus = "suspended"]

lockUserById(id) ==
    IF id \in DOMAIN store
    THEN /\ store' = [store EXCEPT ![id] = LockUpdate(@)]
         /\ ret' = Ret("lockUserById", 0, "ok", StatusPre(id),
                       StatusOf(LockUpdate(store[id])))
         /\ UNCHANGED <<inst, now, calls, base, run, plain>>
    ELSE /\ ret' = Ret("lockUserById", 0, "ok", StatusPre(id), NULL)
         /\ UNCHANGED <<store, inst, now, calls, base, run, plain>>

\* -------------------------------------------------------- instance methods

\* this.save() at the end of an instance method of copy i, whose document
\* was `before` when the method began and is `after` now
SaveInst(i, before, after) ==
    \E salt \in GenSalt(before, after) :
      \E hooked \in {preSave(before, after, salt)} :
        /\ store' = [store EXCEPT ![inst[i]._id] = SaveDelta(@, before, hooked)]
        /\ inst' = [inst EXCEPT ![i].doc = postSave(hooked)]

\* new AccountModel(in).save()
Create(i, id, in, outcome) ==
    LET after == Assign(BlankDoc, in) IN
    /\ id \notin DOMAIN store
    /\ IF ~(Required(after) /\ Valid(BlankDoc, after))
       THEN /\ ret' = Ret("create", i, "ValidationError", NoStatus, in)
            /\ UNCHANGED <<store, inst, base, run, plain>>
       ELSE /\ outcome \in HashOutcomes(BlankDoc, after)
            /\ IF outcome = "error"
               THEN /\ ret' = Ret("create", i, "HashError", NoStatus,
                                  [in |-> in,
                                   doc |-> preSaveError(BlankDoc, after)])
                    /\ UNCHANGED <<store, inst, base, run, plain>>
               ELSE \E salt \in GenSalt(BlankDoc, after) :
                     \E hooked \in {preSave(BlankDoc, after, salt)} :
                       /\ store' = (id :> hooked) @@ store
                       /\ inst' = [inst EXCEPT ![i] =
                                       [_id |-> id, doc |-> postSave(hooked)]]
                       /\ base' = [base EXCEPT ![i] = calls[i]]
                       /\ run' = [run EXCEPT ![i] = 0]
                       /\ plain' = (id :> in.password) @@ plain
                       /\ ret' = Ret("create", i, "ok", NoStatus, in)
    /\ UNCHANGED <<now, calls>>

\* A handler assigns the given fields to its copy and calls save(); a copy
\* whose save was rejected or aborted is dropped with the request
Update(i, in, outcome) ==
    LET d == inst[i].doc
        after == Assign(d, in) IN
    /\ Loaded(i)
    /\ IF ~Valid(d, after)
       THEN /\ inst' = [inst EXCEPT ![i] = NoDoc]
            /\ ret' = Ret("save", i, "ValidationError",
                          StatusPre(inst[i]._id), in)
            /\ UNCHANGED <<store, plain>>
       ELSE /\ outcome \in HashOutcomes(d, after)
            /\ IF outcome = "error"
               THEN /\ inst' = [inst EXCEPT ![i] = NoDoc]
                    /\ ret' = Ret("save", i, "HashError",
                                  StatusPre(inst[i]._id),
                                  [in |-> in, doc |-> preSaveError(d, after)])
                    /\ UNCHANGED <<store, plain>>
               ELSE /\ SaveInst(i, d, after)
                    /\ plain' = IF in.password # NoString
                                THEN [plain EXCEPT ![inst[i]._id] = in.password]
                                ELSE plain
                    /\ ret' = Ret("save", i, "ok", StatusPre(inst[i]._id), in)
    /\ UNCHANGED <<now, calls, base, run>>

\* What findById(this._id) can do: resolve, or reject with a store error
Faults == {"none", "storeError"}

comparePassword_Rethrows(i, candidatePassword, fault) ==
    LET id == inst[i]._id IN
    /\ Loaded(i)
    /\ ret' = IF fault = "storeError"
              THEN Ret("comparePassword", i, "StoreError", NoStatus,
                       [candidate |-> candidatePassword, result |-> FALSE,
                        cause |-> "storeError"])
              ELSE IF id \notin DOMAIN store
              THEN Ret("comparePassword", i, "ComparisonFailed", NoStatus,
                       [candidate |-> candidatePassword, result |-> FALSE,
                        cause |-> "notFound"])
              ELSE LET result == bcryptCompare(candidatePassword,
                                               store[id].password) IN
                   Ret("comparePassword", i, "ok", StatusPre(id),
                       [candidate |-> candidatePassword, result |-> result,
                        cause |-> IF result THEN "match" ELSE "mismatch"])
    /\ UNCHANGED <<store, inst, now, calls, base, run, plain>>

\* comparePassword: a rejected read, and the TypeError of reading the
\* password of null, are caught and replaced by one error; the result of
\* bcrypt.compare is returned. cause is why the call ended as it did.
comparePassword(i, candidatePassword, fault) ==
    LET id == inst[i]._id IN
    /\ Loaded(i)
    /\ ret' = IF fault = "storeError"
              THEN Ret("comparePassword", i, "ComparisonFailed", NoStatus,
                       [candidate |-> candidatePassword, result |-> FALSE,
                        cause |-> "storeError"])
              ELSE IF id \notin DOMAIN store
              THEN Ret("comparePassword", i, "ComparisonFailed", NoStatus,
                       [candidate |-> candidatePassword, result |-> FALSE,
                        cause |-> "notFound"])
              ELSE LET result == bcryptCompare(candidatePassword,
                                               store[id].password) IN
                   Ret("comparePassword", i, "ok", StatusPre(id),
                       [candidate |-> candidatePassword, result |-> result,
                        cause |-> IF result THEN "match" ELSE "mismatch"])
    /\ UNCHANGED <<store, inst, now, calls, base, run, plain>>

\* Another client of the database removes the account document
Remove(id) ==
    /\ id \in DOMAIN store
    /\ store' = [k \in DOMAIN store \ {id} |-> store[k]]
    /\ ret' = Ret("remove", 0, "ok", StatusPre(id), NULL)
    /\ UNCHANGED <<inst, now, calls, base, run, plain>>

updateLastLogin(i) ==
    LET d == inst[i].doc
        after == [d EXCEPT !.security.lastLogin = now] IN
    /\ Loaded(i)
    /\ SaveInst(i, d, after)
    /\ ret' = Ret("updateLastLogin", i, "ok", StatusPre(inst[i]._id), NULL)
    /\ UNCHANGED <<now, calls, base, run, plain>>

\* The two lockout fields of a document
Lockout(d) == <<d.security.failedLoginAttempts, d.security.lockUntil>>

isLocked_AtOrAfter(d) ==
    Truthy(d.security.lockUntil) /\ d.security.lockUntil >= now

isLocked(d) ==
    Truthy(d.security.lockUntil) /\ d.security.lockUntil > now

lockedStatus(d) ==
    LET lockUntil == GetPath(d, "lockUntil") IN
    Truthy(lockUntil) /\ lockUntil > now

IncrementSet_After(d) ==
    LET n == d.security.failedLoginAttempts + 1 IN
    [d EXCEPT !.security.failedLoginAttempts = n,
              !.security.lockUntil =
                  IF n > MAX_ATTEMPTS THEN now + LOCK_TIME ELSE @]

IncrementSet_KeepsLock(d) ==
    LET n == d.security.failedLoginAttempts + 1 IN
    [d EXCEPT !.security.failedLoginAttempts = n,
              !.security.lockUntil =
                  IF n >= MAX_ATTEMPTS /\ ~Truthy(@)
                  THEN now + LOCK_TIME ELSE @]

IncrementSet(d) ==
    LET n == d.security.failedLoginAttempts + 1 IN
    [d EXCEPT !.security.failedLoginAttempts = n,
              !.security.lockUntil =
                  IF n >= MAX_ATTEMPTS THEN now + LOCK_TIME ELSE @]

incrementFailedLogins(i) ==
    LET d == inst[i].doc
        after == IncrementSet(d) IN
    /\ Loaded(i)
    /\ SaveInst(i, d, after)
    /\ run' = [run EXCEPT ![i] = IF @ = NULL THEN NULL ELSE @ + 1]
    /\ ret' = Ret("incrementFailedLogins", i, "ok", StatusPre(inst[i]._id), NULL)
    /\ UNCHANGED <<now, calls, base, plain>>

ResetSet_KeepsLock(d) ==
    [d EXCEPT !.security.failedLoginAttempts = 0]

ResetSet(d) ==
    [d EXCEPT !.security.failedLoginAttempts = 0,
              !.security.lockUntil = NULL]

resetFailedLogins(i) ==
    LET d == inst[i].doc
        after == ResetSet(d) IN
    /\ Loaded(i)
    /\ SaveInst(i, d, after)
    /\ run' = [run EXCEPT ![i] = 0]
    /\ ret' = Ret("resetFailedLogins", i, "ok", StatusPre(inst[i]._id),
                  [locked |-> isLocked(d),
                   current |-> Lockout(d) = Lockout(store[inst[i]._id])])
    /\ UNCHANGED <<now, calls, base, plain>>

generateEmailVerificationToken(i, token) ==
    LET d == inst[i].doc
        after == [d EXCEPT !.security.emailVerificationToken = token] IN
    /\ Loaded(i)
    /\ SaveInst(i, d, after)
    /\ ret' = Ret("generateEmailVerificationToken", i, "ok",
                  StatusPre(inst[i]._id), token)
    /\ UNCHANGED <<now, calls, base, run, plain>>

VerifySet_KeepsToken(d) ==
    [d EXCEPT !.security.isEmailVerified = TRUE]

VerifySet(d) ==
    [d EXCEPT !.security.isEmailVerified = TRUE,
              !.security.emailVerificationToken = UNDEFINED]

TokenMismatch_WhenSet(held, token) == Truthy(held) /\ held # token

\* this.security.emailVerificationToken !== token
TokenMismatch(held, token) == held # token

verifyEmail(i, token) ==
    LET d == inst[i].doc
        val == [token |-> token, held |-> d.security.emailVerificationToken] IN
    /\ Loaded(i)
    /\ IF TokenMismatch(d.security.emailVerificationToken, token)
       THEN /\ ret' = Ret("verifyEmail", i, "InvalidToken",
                          StatusPre(inst[i]._id), val)
            /\ UNCHANGED <<store, inst>>
       ELSE /\ SaveInst(i, d, VerifySet(d))
            /\ ret' = Ret("verifyEmail", i, "ok", StatusPre(inst[i]._id), val)
    /\ UNCHANGED <<now, calls, base, run, plain>>

Unshift_AtEnd(h, loginData) == h \o <<loginData>>

Unshift(h, loginData) == <<loginData>> \o h

Truncate_KeepsLast(h) ==
    IF Len(h) > MAX_HISTORY_LENGTH
    THEN SubSeq(h, Len(h) - MAX_HISTORY_LENGTH + 1, Len(h)) ELSE h

Truncate(h) ==
    IF Len(h) > MAX_HISTORY_LENGTH THEN SubSeq(h, 1, MAX_HISTORY_LENGTH) ELSE h

addLoginHistory(i, loginData) ==
    LET d == inst[i].doc
        after == [d EXCEPT !.loginHistory = Truncate(Unshift(@, loginData))] IN
    /\ Loaded(i)
    /\ SaveInst(i, d, after)
    /\ calls' = [calls EXCEPT ![i] = @ + 1]
    /\ ret' = Ret("addLoginHistory", i, "ok", StatusPre(inst[i]._id), loginData)
    /\ UNCHANGED <<now, base, run, plain>>

\* The k-th login record handed to copy i: every record is a new one
LoginData(i) == calls[i] + 1

\* ------------------------------------------------------------ schema builder

\* JavaScript values: a record whose js field tells the kind of value. A type
\* tag such as 'String' is a string of one token.
JsUndefined == [js |-> "undefined"]
JsNull == [js |-> "null"]
JsNumber(n) == [js |-> "number", n |-> n]
JsBoolean(b) == [js |-> "boolean", b |-> b]
JsString(str) == [js |-> "string", s |-> str]
JsFunction(name) == [js |-> "function", name |-> name]
JsArray(elems) == [js |-> "array", elems |-> elems]
JsObject(props) == [js |-> "object", props |-> props]

\* typeof v
TypeOf(v) == IF v.js \in {"null", "array"} THEN "object" ELSE v.js

\* Array.isArray(v)
IsArray(v) == v.js = "array"

\* !!v
JsTruthy(v) ==
    CASE v.js \in {"undefined", "null"} -> FALSE
      [] v.js = "number" -> v.n # 0
      [] v.js = "boolean" -> v.b
      [] v.js = "string" -> v.s # << >>
      [] OTHER -> TRUE

\* v[key], for a v that is neither null nor undefined
GetProp(v, key) ==
    IF v.js = "object" /\ key \in DOMAIN v.props THEN v.props[key]
    ELSE JsUndefined

\* validateModelName throws
validateModelName(modelName) ==
    TypeOf(modelName) # "string" \/ ~JsTruthy(JsString(Trim(modelName.s)))

validateConfigStructure_NoArrayCheck(config) ==
    IF ~JsTruthy(config) \/ TypeOf(config) # "object"
    THEN "INVALID_CONFIG_STRUCTURE"
    ELSE IF ~JsTruthy(GetProp(config, "fields"))
         THEN "MISSING_FIELDS_OBJECT"
         ELSE "validated"

\* validateConfigStructure: the message it throws, or "validated"
validateConfigStructure(config) ==
    IF ~JsTruthy(config) \/ TypeOf(config) # "object" \/ IsArray(config)
    THEN "INVALID_CONFIG_STRUCTURE"
    ELSE IF ~JsTruthy(GetProp(config, "fields"))
         THEN "MISSING_FIELDS_OBJECT"
         ELSE "validated"

\* Model names and configurations handed to createModel
MinimalConfig == JsObject("fields" :> JsObject("name" :> JsFunction("String")))

ModelNames ==
    {JsString(<<"U">>), JsString(<<" ", "U", " ">>), JsString(<< >>),
     JsString(<<" ">>), JsString(<<" ", " ">>), JsNull, JsUndefined,
     JsNumber(123), JsObject(<< >>), JsArray(<< >>)}

Configs ==
    {JsNull, JsUndefined, JsNumber(0), JsNumber(5), JsString(<< >>),
     JsString(<<"U">>), JsBoolean(TRUE), JsFunction("String"),
     JsArray(<< >>), JsArray(<<MinimalConfig>>),
     JsObject(<< >>), JsObject("options" :> JsObject(<< >>)),
     JsObject("fields" :> JsNull), JsObject("fields" :> JsObject(<< >>)),
     JsObject("fields" :> JsArray(<< >>)),
     JsObject("fields" :> JsArray(<<JsObject("name" :> JsFunction("String"))>>)),
     JsObject("fields" :> JsString(<<"U">>)),
     JsObject("fields" :> JsNumber(0)), JsObject("fields" :> JsString(<< >>)),
     MinimalConfig}

\* new mongoose.Schema(fields, options) and mongoose.model(modelName, schema):
\* a definition object, or an array of definition objects, is compiled; the
\* characters of a string are not types; what the library does with any
\* other value is the library's
NewSchema(fields) ==
    CASE fields.js \in {"object", "array"} -> {"ok"}
      [] fields.js = "string" -> {"SchemaError"}
      [] OTHER -> {"ok", "SchemaError"}

\* createModel: the two validations, in their order, then the schema and the
\* model are built
createModel(modelName, config) ==
    LET checked == IF validateModelName(modelName) THEN "INVALID_MODEL_NAME"
                   ELSE validateConfigStructure(config) IN
    /\ \E outcome \in (IF checked = "validated"
                        THEN NewSchema(GetProp(config, "fields"))
                        ELSE {checked}) :
          ret' = Ret("createModel", 0, outcome, NoStatus,
                     [modelName |-> modelName, config |-> config])
    /\ UNCHANGED <<store, inst, now, calls, base, run, plain>>

\* The ten keys of typeMap and the values they map to
PrimitiveTags ==
    {"String", "Number", "Boolean", "Date", "ObjectId", "Array", "Mixed",
     "Buffer", "Decimal128", "Map"}

\* Members every object literal inherits from Object.prototype
ObjectPrototype == {"constructor", "toString"}

\* typeMap[key]: an own key, or a member the literal inherits
typeMap(key) ==
    IF key.js = "string" /\ Len(key.s) = 1
    THEN IF key.s[1] \in PrimitiveTags THEN JsFunction(key.s[1])
         ELSE IF key.s[1] = "constructor" THEN JsFunction("Object")
         ELSE IF key.s[1] = "toString"
              THEN JsFunction("Object.prototype.toString")
              ELSE JsUndefined
    ELSE JsUndefined

\* The converter the caller passes, and the subdocument schema built from
\* what it returns
schemaConverter(fields) == [js |-> "converted", of |-> fields]
Schema(definition) == [js |-> "schema", obj |-> definition]

RECURSIVE mapToMongooseType(_)
mapToMongooseType(field) ==
    LET type == GetProp(field, "type") IN
    IF TypeOf(type) = "object" /\ ~IsArray(type)
    THEN Schema(schemaConverter(type))
    ELSE IF IsArray(type)
         THEN JsArray(<<JsObject("type" :> mapToMongooseType(
                  JsObject("type" :> IF type.elems = << >> THEN JsUndefined
                                     ELSE type.elems[1])))>>)
         ELSE IF JsTruthy(typeMap(type)) THEN typeMap(type) ELSE type

\* Field types handed to the mapper: tags, other plain values, and arrays and
\* nested objects of them up to a depth
Tags == PrimitiveTags \cup ObjectPrototype \cup {"CustomType"}

PlainTypes ==
    {JsString(<<t>>) : t \in Tags} \cup
    {JsString(<< >>), JsUndefined, JsNull, JsNumber(5), JsFunction("String")}

RECURSIVE FieldTypes(_)
FieldTypes(depth) ==
    IF depth = 0 THEN PlainTypes
    ELSE LET inner == FieldTypes(depth - 1) IN
         inner \cup {JsArray(<< >>), JsObject(<< >>)}
               \cup {JsArray(<<t>>) : t \in inner}
               \cup {JsObject("street" :> JsObject("type" :> t)) : t \in inner}

Fields ==
    {JsObject(<< >>)} \cup {JsObject("type" :> t) : t \in FieldTypes(MaxDepth)}

\* A call of the mapper
MapField(field) ==
    /\ ret' = Ret("mapToMongooseType", 0, "ok", NoStatus,
                  [field |-> field, result |-> mapToMongooseType(field)])
    /\ UNCHANGED <<store, inst, now, calls, base, run, plain>>

\* ----------------------------------------------------------- specifications

\* Every core operation on the account: the statics, and one request
\* handler's copy with its instance methods; bookkeeping counters kept small
Next ==
    \/ \E id \in Ids : Load(1, id)
    \/ now < LifeTicks * TickStep /\ Tick
    \/ \E q \in QueryIds : softDelete(q)
    \/ \E q \in QueryIds : lockUserById(q)
    \/ updateLastLogin(1)
    \/ /\ inst[1].doc.security.failedLoginAttempts < SmallCap
       /\ incrementFailedLogins(1)
    \/ resetFailedLogins(1)
    \/ generateEmailVerificationToken(1, 1)
    \/ \E t \in {1, WRONG_TOKEN} : verifyEmail(1, t)
    \/ /\ calls[1] < SmallCap
       /\ addLoginHistory(1, LoginData(1))

Spec == Init /\ [][Next]_vars

\* Account status: the statics that write accountStatus and deletedAt, and
\* one request handler's copy saving its lockout and login fields
NextStatus ==
    \/ \E id \in Ids : Load(1, id)
    \/ now < LifeTicks * TickStep /\ Tick
    \/ \E q \in QueryIds : softDelete(q)
    \/ \E q \in QueryIds : lockUserById(q)
    \/ updateLastLogin(1)
    \/ /\ inst[1].doc.security.failedLoginAttempts < SmallCap
       /\ incrementFailedLogins(1)
    \/ resetFailedLogins(1)

SpecStatus == Init /\ [][NextStatus]_vars

\* Reads: find over two accounts, the single-document reads, and the
\* statics that change what a read sees
NextFind ==
    \/ \E id \in FindIds : Load(1, id)
    \/ \E q \in FindQueries : find(q)
    \/ \E q \in FindQueryIds : softDelete(q)
    \/ \E q \in FindQueryIds : lockUserById(q)

SpecFind == InitFind /\ [][NextFind]_vars

\* No account yet
InitSave ==
    /\ store = << >>
    /\ inst = [i \in Inst |-> NoDoc]
    /\ now = 0
    /\ calls = [i \in Inst |-> 0]
    /\ base = [i \in Inst |-> NULL]
    /\ run = [i \in Inst |-> NULL]
    /\ plain = << >>
    /\ ret = Ret("init", 0, "ok", NoStatus, NULL)

\* Saves: an account is created from what a caller supplies, then read,
\* changed and saved again by two handlers
NextSave ==
    \/ /\ 1 \notin DOMAIN store
       /\ \E in \in IdentityInputs : Create(1, 1, in, "hashed")
    \/ \E id \in DOMAIN store : Load(2, id)
    \/ \E i \in Inst, in \in IdentityUpdates : Update(i, in, "hashed")

SpecSave == InitSave /\ [][NextSave]_vars

\* Passwords: an account is created, its password changed and compared by
\* two handlers, and its lockout and login fields saved in between
NextPassword ==
    \/ /\ 1 \notin DOMAIN store
       /\ \E in \in PasswordInputs, o \in Outcomes : Create(1, 1, in, o)
    \/ \E id \in DOMAIN store : Load(2, id)
    \/ \E i \in Inst, in \in PasswordUpdates, o \in Outcomes :
          Update(i, in, o)
    \/ \E w \in Passwords : comparePassword(2, w, "none")
    \/ /\ inst[2].doc.security.failedLoginAttempts < SmallCap
       /\ incrementFailedLogins(2)
    \/ /\ calls[1] < SmallCap
       /\ addLoginHistory(1, LoginData(1))

SpecPassword == InitSave /\ [][NextPassword]_vars

\* Saves that change the password together with other fields, and the
\* save that changes the account status
NextProfile ==
    \/ /\ 1 \notin DOMAIN store
       /\ \E in \in ProfileInputs, o \in Outcomes : Create(1, 1, in, o)
    \/ \E id \in DOMAIN store : Load(2, id)
    \/ \E i \in Inst, in \in ProfileUpdates, o \in Outcomes :
          Update(i, in, o)
    \/ \E q \in Ids : softDelete(q)

SpecProfile == InitSave /\ [][NextProfile]_vars

\* Password comparison by two handlers, while the account may be removed and
\* the store may fail
NextCompare ==
    \/ \E i \in Inst, id \in DOMAIN store : Load(i, id)
    \/ \E id \in Ids : Remove(id)
    \/ \E i \in Inst, w \in Passwords, fault \in Faults :
          comparePassword(i, w, fault)

SpecCompare == Init /\ [][NextCompare]_vars

\* Concurrent soft deletes: each call reads the account, then writes it
NextDelete ==
    \/ \E i \in Inst, q \in QueryIds : softDeleteRead(i, q)
    \/ now < LifeTicks * TickStep /\ Tick
    \/ \E i \in Inst : softDeleteWrite(i)

SpecDelete == Init /\ [][NextDelete]_vars

\* The schema builder and the type mapper: stateless calls
NextBuilder ==
    \/ \E modelName \in ModelNames, config \in Configs :
          createModel(modelName, config)
    \/ \E field \in Fields : MapField(field)

SpecBuilder == InitSave /\ [][NextBuilder]_vars

\* Login lockout: two handlers' copies of the account and the clock
NextLogin ==
    \/ \E i \in Inst, id \in Ids : Load(i, id)
    \/ now < MaxTicks * TickStep /\ Tick
    \/ \E i \in Inst :
          /\ inst[i].doc.security.failedLoginAttempts < MaxAttempts
          /\ incrementFailedLogins(i)
    \/ \E i \in Inst : resetFailedLogins(i)

SpecLogin == Init /\ [][NextLogin]_vars

\* Failed logins of two concurrent requests: each handler loads its own copy
\* of the account and counts the failure on it
NextRace ==
    \/ \E i \in Inst, id \in Ids : Load(i, id)
    \/ \E i \in Inst :
          /\ inst[i].doc.security.failedLoginAttempts < MaxAttempts
          /\ incrementFailedLogins(i)

SpecRace == Init /\ [][NextRace]_vars

\* Login history: one handler's copy takes up to MaxHistoryCalls records
\* while a second handler's copy takes up to SmallCap + 1
NextHistory ==
    \/ \E i \in Inst, id \in Ids : Load(i, id)
    \/ \E i \in Inst :
          /\ calls[i] < (IF i = 1 THEN MaxHistoryCalls ELSE SmallCap + 1)
          /\ addLoginHistory(i, LoginData(i))

SpecHistory == Init /\ [][NextHistory]_vars

\* Email verification: tokens drawn by crypto.randomBytes, tokens presented
NextEmail ==
    \/ \E i \in Inst, id \in Ids : Load(i, id)
    \/ \E i \in Inst, t \in Tokens : generateEmailVerificationToken(i, t)
    \/ \E i \in Inst, t \in Tokens \cup {WRONG_TOKEN, UNDEFINED} :
          verifyEmail(i, t)

SpecEmail == Init /\ [][NextEmail]_vars

\* ------------------------------------------------------------------- claims

CoreOps ==
    {"softDelete", "lockUserById", "updateLastLogin", "incrementFailedLogins",
     "resetFailedLogins", "generateEmailVerificationToken", "verifyEmail",
     "addLoginHistory"}

LiveStatus == {"active", "pending", "suspended"}

\* C1: softDelete of an account that is already deactivated rejects with the
\* already-deleted error and writes nothing: the stored accountStatus and
\* deletedAt are what they were before the call.
C1_SoftDeleteOfDeactivatedRejects ==
    (ret.op = "softDelete" /\ ret.pre.accountStatus = "deactivated")
        => /\ ret.kind = "AlreadyDeleted"
           /\ \A id \in Ids : StatusOf(store[id]) = ret.pre

C3_DeactivatedIsSink ==
    (ret.op \in CoreOps /\ ret.pre.accountStatus = "deactivated")
        => \A id \in Ids : store[id].accountStatus = "deactivated"

\* C4: on one copy that had 0 failed attempts and no lock, after k calls of
\* incrementFailedLogins in a row: while k < 5 lockUntil is null and isLocked()
\* is falsy; at k = 5 lockUntil is the time of the 5th call + 15 minutes and
\* isLocked() is true from that call until lockUntil.
C4_LockAtFifthFailure ==
    \A i \in Inst :
        (Loaded(i) /\ run[i] # NULL) =>
            LET d == inst[i].doc IN
            /\ run[i] < MAX_ATTEMPTS =>
                  /\ d.security.failedLoginAttempts = run[i]
                  /\ d.security.lockUntil = NULL
                  /\ ~isLocked(d)
            /\ (run[i] = MAX_ATTEMPTS /\ ret.op = "incrementFailedLogins"
                    /\ ret.who = i) =>
                  /\ d.security.lockUntil = ret.at + 15 * 60 * 1000
                  /\ (now < ret.at + 15 * 60 * 1000 => isLocked(d))

C4_Witness ==
    /\ ret.op = "incrementFailedLogins" /\ ret.who = 1 /\ run[1] = 5
    /\ ret.at = TickStep /\ now = TickStep
    /\ inst[1].doc.security.lockUntil = TickStep + 15 * 60 * 1000
    /\ isLocked(inst[1].doc)

\* C5: the lockedStatus virtual of a document equals isLocked() of the same
\* document, in every reachable state.
C5_LockedStatusIsIsLocked ==
    \A i \in Inst : Loaded(i) => (lockedStatus(inst[i].doc) <=> isLocked(inst[i].doc))

\* C6: a copy locked by a call at time t, with no later operation, reports
\* isLocked() true at every time before t + 15 minutes and false at every time
\* from t + 15 minutes on, with no reset.
C6_LockExpiresByTime ==
    \A i \in Inst :
        (/\ ret.op = "incrementFailedLogins" /\ ret.who = i
         /\ inst[i].doc.security.failedLoginAttempts >= MAX_ATTEMPTS) =>
            (isLocked(inst[i].doc) <=> now < ret.at + 15 * 60 * 1000)

C6_Witness ==
    /\ ret.op = "incrementFailedLogins" /\ ret.who = 1
    /\ inst[1].doc.security.failedLoginAttempts = 5
    /\ now = ret.at + 15 * 60 * 1000
    /\ inst[1].doc.security.lockUntil = now
    /\ ~isLocked(inst[1].doc)

Min(a, b) == IF a < b THEN a ELSE b

\* C8: a copy whose loginHistory was empty has, after n addLoginHistory calls,
\* exactly min(n, 10) entries: the min(n, 10) records added last, the latest
\* at index 0, and each call persists the copy's history.
C8_HistoryKeepsLastTen ==
    /\ \A i \in Inst :
          (Loaded(i) /\ base[i] # NULL) =>
              LET h == inst[i].doc.loginHistory
                  n == calls[i] - base[i]
                  m == Min(n, 10) IN
              /\ Len(h) = m
              /\ \A k \in 1..m : h[k] = calls[i] - k + 1
    /\ ret.op = "addLoginHistory" =>
          store[inst[ret.who]._id].loginHistory = inst[ret.who].doc.loginHistory

C8_Witness ==
    /\ ret.op = "addLoginHistory" /\ ret.who = 1
    /\ base[1] = 0 /\ calls[1] = 12
    /\ Len(inst[1].doc.loginHistory) = 10
    /\ inst[1].doc.loginHistory[1] = 12
    /\ inst[1].doc.loginHistory[10] = 3
    /\ store[1].loginHistory = inst[1].doc.loginHistory

FoundIds(docs) == {d._id : d \in docs}

\* The stored documents that satisfy the conditions of q on paths other than
\* accountStatus
MatchesRest(doc, q) ==
    \A f \in DOMAIN q \ {"accountStatus"} : doc[f] = q[f]

\* C11 as stated: a find with no accountStatus condition returns the matching
\* records whose accountStatus is active, and a find with an accountStatus
\* condition returns the matching records whose accountStatus is that value.
C11_FindFiltersByStatus ==
    [][ret'.op = "find" =>
        LET q == ret'.val.query IN
        FoundIds(ret'.val.docs) =
            {id \in DOMAIN store :
                /\ MatchesRest(store[id], q)
                /\ store[id].accountStatus =
                      (IF "accountStatus" \in DOMAIN q
                       THEN q["accountStatus"] ELSE "active")}]_vars

\* C11 amended: a find with no accountStatus condition, or with an empty one,
\* returns the matching records whose accountStatus is active; a find with a
\* non-empty accountStatus condition returns the matching records whose
\* accountStatus is that value.
C11_FindFiltersByGivenStatus ==
    [][ret'.op = "find" =>
        LET q == ret'.val.query IN
        FoundIds(ret'.val.docs) =
            {id \in DOMAIN store :
                /\ MatchesRest(store[id], q)
                /\ store[id].accountStatus =
                      (IF "accountStatus" \in DOMAIN q /\ q["accountStatus"] # ""
                       THEN q["accountStatus"] ELSE "active")}]_vars

C11_Witness ==
    /\ ret.op = "find"
    /\ ret.val.query = ("accountStatus" :> "suspended")
    /\ ret.val.docs = {[_id |-> 2, accountStatus |-> "suspended"]}
    /\ store[1].accountStatus = "active"

\* C12: every read that has no accountStatus condition, the single-document
\* reads findOne and findById included, returns only records whose
\* accountStatus is active.
C12_UnscopedReadsAreActiveOnly ==
    (ret.op \in {"load", "softDelete"} /\ ret.kind = "ok")
        => ret.pre.accountStatus = "active"

\* C13: for an account whose password was last set from plaintext P,
\* comparePassword(P) returns true and comparePassword(Q) returns false for
\* every other Q, also after later saves that do not change the password.
C13_ComparePasswordMatchesPlaintext ==
    /\ (ret.op = "comparePassword" /\ ret.kind = "ok") =>
          (ret.val.result <=> ret.val.candidate = plain[inst[ret.who]._id])
    /\ \A id \in DOMAIN store : \A w \in Passwords :
          bcryptCompare(w, store[id].password) <=> w = plain[id]

C13_Witness ==
    /\ ret.op = "comparePassword" /\ ret.kind = "ok" /\ ret.val.result
    /\ ret.val.candidate = <<"a", "B", "1", "a", "B", "2">>
    /\ store[1].security.failedLoginAttempts = 1
    /\ Len(store[1].loginHistory) = 1

\* C14: in every reachable state the stored password of an account is a hash
\* of the plaintext the caller supplied and never that plaintext.
C14_StoredPasswordIsHashed ==
    \A id \in DOMAIN store :
        /\ store[id].password # plain[id]
        /\ \E salt \in Salts : store[id].password = <<"$", salt>> \o plain[id]

C14_Witness ==
    /\ ret.op = "save" /\ ret.kind = "ok"
    /\ ret.val.password = <<"A", "b", "1", "a", "B", "1">>
    /\ plain[1] = ret.val.password
    /\ store[1].password = <<"$", SaltOf[2]>> \o ret.val.password

\* A name is in title case: each letter that begins a word is upper case and
\* every other letter is lower case
TitleCased(str) ==
    \A k \in 1..Len(str) :
        str[k] \in Letters =>
            IF k = 1 \/ str[k - 1] \notin Letters
            THEN str[k] = toUpperCase(str[k])
            ELSE str[k] = toLowerCase(str[k])

\* The name a save stores for a supplied name: the trimmed name, in title case
IsTitleCaseOf(stored, supplied) ==
    /\ Lower(stored) = Lower(Trim(supplied))
    /\ TitleCased(stored)

\* C15: every save, the first or a later one, stores the supplied email
\* trimmed and in lower case, the supplied firstName and lastName trimmed and
\* in title case, and the supplied phone number without its leading '+'.
C15_SaveNormalizes ==
    (ret.op \in {"create", "save"} /\ ret.kind = "ok") =>
        LET in == ret.val
            d == store[inst[ret.who]._id] IN
        /\ in.email # NoString => d.email = Lower(Trim(in.email))
        /\ in.firstName # NoString =>
              IsTitleCaseOf(d.profile.firstName, in.firstName)
        /\ in.lastName # NoString =>
              IsTitleCaseOf(d.profile.lastName, in.lastName)
        /\ in.phoneNumber # NoString =>
              /\ d.phoneNumber = NoString \/ Head(d.phoneNumber) # "+"
              /\ <<"+">> \o d.phoneNumber = Trim(in.phoneNumber)
                    \/ d.phoneNumber = Trim(in.phoneNumber)

\* C16: saving a saved account again with no field changed leaves the stored
\* email, firstName, lastName and phoneNumber as the first save left them.
C16_ResaveChangesNothing ==
    [][(ret'.op = "save" /\ ret'.kind = "ok" /\ ret'.val = NoInput) =>
          store' = store]_vars

C16_Witness ==
    /\ ret.op = "save" /\ ret.kind = "ok" /\ ret.val = NoInput /\ ret.who = 2
    /\ store[1].profile.lastName = <<"A", " ", "A">>
    /\ store[1].phoneNumber = <<"1", "0">>
    /\ store[1].email = <<"a", "@", "b", ".", "c">>

\* C17: softDelete with a query that matches no stored account rejects with
\* the not-found error and writes nothing.
C17_SoftDeleteOfMissingRejects ==
    [][(ret'.op = "softDelete" /\ ret'.pre = NoStatus) =>
          /\ ret'.kind = "NotFound"
          /\ store' = store
          /\ inst' = inst]_vars

C17_Witness ==
    /\ ret.op = "softDelete" /\ ret.kind = "NotFound" /\ ret.pre = NoStatus
    /\ store[1].accountStatus = "active" /\ store[1].deletedAt = NULL
    /\ store[2].accountStatus = "deactivated" /\ store[2].deletedAt = 0

\* C18: createModel fails with INVALID_MODEL_NAME when the name is not a
\* string or is empty after trimming, whatever the config; otherwise with
\* INVALID_CONFIG_STRUCTURE when the config is null, undefined, not an object
\* or an array; otherwise with MISSING_FIELDS_OBJECT when the config has no
\* fields; and the minimal config with a valid name passes the three checks.
C18_ValidationOrder ==
    ret.op = "createModel" =>
        LET modelName == ret.val.modelName
            config == ret.val.config
            badName == \/ modelName.js # "string"
                       \/ \A k \in 1..Len(modelName.s) : modelName.s[k] = " "
            badConfig == config.js \in {"null", "undefined", "array"}
                            \/ config.js # "object" IN
        /\ badName => ret.kind = "INVALID_MODEL_NAME"
        /\ (~badName /\ badConfig) => ret.kind = "INVALID_CONFIG_STRUCTURE"
        /\ (~badName /\ ~badConfig /\ "fields" \notin DOMAIN config.props) =>
              ret.kind = "MISSING_FIELDS_OBJECT"
        /\ (~badName /\ config = MinimalConfig) => ret.kind = "ok"

C18_Witness ==
    /\ ret.op = "createModel" /\ ret.kind = "INVALID_CONFIG_STRUCTURE"
    /\ ret.val.modelName = JsString(<<" ", "U", " ">>)
    /\ ret.val.config = JsArray(<<MinimalConfig>>)

\* C19: the mapper returns the fixed concrete type for each of the ten
\* primitive tags, a one-element wrapper around the mapping of the element for
\* a single-element array, a subdocument built from the converter for a nested
\* object, a tag that is not in the table unchanged, and undefined for an
\* undefined type.
C19_MapperIsReferenceMapping ==
    ret.op = "mapToMongooseType" =>
        LET type == GetProp(ret.val.field, "type")
            result == ret.val.result
            isTag == type.js = "string" /\ Len(type.s) = 1 IN
        /\ (isTag /\ type.s[1] \in PrimitiveTags) =>
              result = JsFunction(type.s[1])
        /\ (type.js = "array" /\ Len(type.elems) = 1) =>
              result = JsArray(<<JsObject("type" :>
                  mapToMongooseType(JsObject("type" :> type.elems[1])))>>)
        /\ type.js = "object" => result = Schema(schemaConverter(type))
        /\ (isTag /\ type.s[1] \notin PrimitiveTags) => result = type
        /\ type.js = "undefined" => result = JsUndefined

\* C20: incrementFailedLogins writes the counter of its own copy plus one,
\* whatever the store holds by then, so two calls on copies that were both
\* loaded at 0 can leave the stored counter at 1.
C20_IncrementWritesCopyCounter ==
    [][\A i \in Inst :
          (ret'.op = "incrementFailedLogins" /\ ret'.who = i) =>
              store'[inst[i]._id].security.failedLoginAttempts =
                  inst[i].doc.security.failedLoginAttempts + 1]_vars

C20_Witness ==
    /\ ret.op = "incrementFailedLogins"
    /\ run[1] = 1 /\ run[2] = 1
    /\ inst[1]._id = inst[2]._id
    /\ inst[1].doc.security.failedLoginAttempts = 1
    /\ inst[2].doc.security.failedLoginAttempts = 1
    /\ store[inst[1]._id].security.failedLoginAttempts = 1

\* C21: every change of the stored accountStatus is active to suspended by
\* lockUserById, or active, pending or suspended to deactivated by softDelete;
\* no other operation changes it.
C21_StatusChangesAreDefinedTransitions ==
    [][\A id \in Ids :
          store'[id].accountStatus # store[id].accountStatus =>
              \/ /\ ret'.op = "lockUserById"
                 /\ store[id].accountStatus = "active"
                 /\ store'[id].accountStatus = "suspended"
              \/ /\ ret'.op = "softDelete"
                 /\ store[id].accountStatus \in LiveStatus
                 /\ store'[id].accountStatus = "deactivated"]_vars

C23_PostSaveHooksRun ==
    /\ (ret.op \in {"create", "save"} /\ ret.kind = "ok") =>
          inst[ret.who].doc.password = NoString
    /\ (ret.op = "softDelete" /\ ret.kind = "ok"
            /\ ret.pre.accountStatus # "deactivated") => StatusChangeLogged

\* C24 as stated: a comparePassword call that fails because the record is not
\* found, because the password does not match, or because the store failed
\* surfaces as the same generic failure.
C24_FailuresAreIndistinguishable ==
    (ret.op = "comparePassword"
        /\ ret.val.cause \in {"notFound", "mismatch", "storeError"}) =>
        ret.kind = "ComparisonFailed"

\* C24 amended: record not found and store error surface as the same generic
\* failure, indistinguishable to the caller; a password mismatch does not
\* fail, it returns false.
C24_ErrorsAreIndistinguishable ==
    ret.op = "comparePassword" =>
        /\ ret.val.cause \in {"notFound", "storeError"} =>
              (ret.kind = "ComparisonFailed" /\ ret.pre = NoStatus
                  /\ ~ret.val.result)
        /\ ret.val.cause = "mismatch" => (ret.kind = "ok" /\ ~ret.val.result)
        /\ ret.val.cause = "match" => (ret.kind = "ok" /\ ret.val.result)

C24_Witness ==
    /\ ret.op = "comparePassword" /\ ret.kind = "ComparisonFailed"
    /\ ret.val.cause = "notFound"
    /\ ret.val.candidate = FirstPassword
    /\ store = << >>

\* C25: createModel fails for every config whose fields value is not a
\* non-null, non-array object: absent, null, an array, a string, a number.
C25_FieldsMustBeAnObject ==
    ret.op = "createModel" =>
        LET config == ret.val.config IN
        (config.js = "object" /\
            (\/ "fields" \notin DOMAIN config.props
             \/ config.props["fields"].js # "object")) => ret.kind # "ok"

\* C26: the stored isEmailVerified becomes true only by a verifyEmail call
\* whose argument is a generated token that is the one stored, and no
\* verifyEmail call on an account with no stored token succeeds.
C26_VerifiedOnlyByStoredToken ==
    [][\A id \in Ids :
          LET held == store[id].security.emailVerificationToken IN
          /\ (store'[id].security.isEmailVerified
                  /\ ~store[id].security.isEmailVerified) =>
                (ret'.op = "verifyEmail" /\ ret'.val.token \in Tokens
                    /\ ret'.val.token = held)
          /\ (ret'.op = "verifyEmail" /\ inst[ret'.who]._id = id
                  /\ ~Truthy(held)) => ret'.kind # "ok"]_vars

\* C27: in every reachable state of the store a non-null lockUntil comes with
\* failedLoginAttempts >= 5.
C27_LockImpliesFiveFailures ==
    \A id \in Ids :
        store[id].security.lockUntil # NULL =>
            store[id].security.failedLoginAttempts >= MAX_ATTEMPTS

\* C28: in every reachable state of the store an account's deletedAt is set
\* if and only if its accountStatus is deactivated.
C28_DeletedAtIffDeactivated ==
    \A id \in Ids :
        store[id].deletedAt # NULL <=> store[id].accountStatus = "deactivated"

\* Time passing changes neither a counter nor a lock
ExpiryKeepsCounter == now' # now => (inst' = inst /\ store' = store)

\* An incrementFailedLogins of copy i that leaves its counter >= 5 sets its
\* lockUntil to now + 15 minutes
IncrementLocks(i) ==
    (ret'.op = "incrementFailedLogins" /\ ret'.who = i /\ inst'[i] # inst[i]
        /\ inst'[i].doc.security.failedLoginAttempts >= MAX_ATTEMPTS) =>
        /\ inst'[i].doc.security.lockUntil = now + LOCK_TIME
        /\ isLocked(inst'[i].doc)

C30_SecondSoftDeleteRejects ==
    [][\A i \in Inst :
          (/\ Loaded(i) /\ inst'[i] = NoDoc
           /\ ret'.op = "softDelete" /\ ret'.who = i
           /\ inst[i].doc.accountStatus # "deactivated"
           /\ store[inst[i]._id].accountStatus = "deactivated"
           /\ store[inst[i]._id].deletedAt # NULL) =>
              (ret'.kind = "AlreadyDeleted" /\ store' = store)]_vars

====
